---------------------------- MODULE Spec2Model ----------------------------
(***************************************************************************)
(* A model of raiden/message_handler.py: MessageHandler.on_message, the    *)
(* eight per-kind handlers and store_ack_message.                          *)
(*                                                                         *)
(* Every caller of on_message is a process p.  cur[p] records what the     *)
(* dispatch in progress has done so far (handlers entered, state changes   *)
(* handed to handle_and_track_state_change, log records, flows started,    *)
(* calls made to the light-client store); loc[p] holds the locals of the   *)
(* handler that is suspended between two blocking calls.                   *)
(***************************************************************************)
EXTENDS Integers, Sequences, FiniteSets, Bags, TLC

VARIABLES
    pc,          \* pc[p]: where caller p is inside on_message
    cur,         \* cur[p]: the observable effects of p's dispatch so far
    loc,         \* loc[p]: locals of the suspended handler
    wal,         \* the light_client_protocol_message table, a bag of records
    chainState   \* raiden.wal.state_manager.current_state

vars == <<pc, cur, loc, wal, chainState>>

-----------------------------------------------------------------------------
(* Bounds of the model *)

NumProcs == 2
MaxRoutes == 2

Procs == 1..NumProcs

-----------------------------------------------------------------------------
(* raiden.constants, addresses, secrets *)

EMPTY_SECRET == "EMPTY_SECRET"
Secrets == {EMPTY_SECRET, "secret1", "secret2"}

None == "None"

\* raiden.address of the local node, and the peers messages come from
OwnAddress == "node"
PeerAddress == "peer"
OtherAddress == "other"

SecretHashes == {"hash1"}
Roles == {"initiator", "mediator", "target"}

\* a chain state as the views of handle_message_refundtransfer read it: the
\* role of the node in each transfer, and the secret of the transfer, which
\* only the initiator can hold
ChainStates ==
    {cs \in [role : [SecretHashes -> Roles],
             secret : [SecretHashes -> {EMPTY_SECRET, "secret1"}]] :
        \A h \in SecretHashes :
            cs.role[h] # "initiator" => cs.secret[h] = EMPTY_SECRET}

RouteIds == 1..MaxRoutes
\* the route lists get_best_routes can return: no route occurs twice
RouteLists ==
    {r \in UNION {[1..n -> RouteIds] : n \in 0..MaxRoutes} :
        \A i, j \in DOMAIN r : r[i] = r[j] => i = j}

-----------------------------------------------------------------------------
(* Messages *)

RecognizedKinds ==
    {"SecretRequest", "RevealSecret", "Unlock", "LockExpired",
     "RefundTransfer", "LockedTransfer", "Delivered", "Processed"}

\* kinds on_message has no branch for: a specialization of LockedTransfer, a
\* specialization of Processed, and an unrelated message kind
UnrecognizedKinds == {"LockedTransferSub", "ProcessedSub", "Ping"}

\* the class each kind derives from (isinstance would accept the base)
BaseKind(kind) ==
    CASE kind = "LockedTransferSub" -> "LockedTransfer"
      [] kind = "ProcessedSub" -> "Processed"
      [] OTHER -> kind

Lock == [amount |-> "lockamount1", secrethash |-> "hash1"]

MessageIds == {"id1", "id2", "id3"}

SecretRequestMessages ==
    {[kind |-> "SecretRequest", cmdid |-> "cmd3", sender |-> PeerAddress,
      payment_identifier |-> "payment1", amount |-> "amount1",
      expiration |-> "expiration1", secrethash |-> "hash1"]}

RevealSecretMessages ==
    {[kind |-> "RevealSecret", cmdid |-> "cmd11", sender |-> PeerAddress,
      secret |-> "secret1"]}

\* envelope: whether balanceproof_from_envelope can derive a balance proof
UnlockMessages ==
    {[kind |-> "Unlock", cmdid |-> "cmd4", sender |-> PeerAddress,
      message_identifier |-> "id1", secret |-> "secret1", envelope |-> e]
        : e \in {"envelope1", "badenvelope"}}

LockExpiredMessages ==
    {[kind |-> "LockExpired", cmdid |-> "cmd13", sender |-> PeerAddress,
      message_identifier |-> "id2", secrethash |-> "hash1", envelope |-> e]
        : e \in {"envelope2", "badenvelope"}}

RefundTransferMessages ==
    {[kind |-> "RefundTransfer", cmdid |-> "cmd8", sender |-> PeerAddress,
      token_network_address |-> "tokennetwork1", target |-> OtherAddress,
      initiator |-> OwnAddress, lock |-> Lock, message_identifier |-> "id1"]}

LockedTransferMessages ==
    {[kind |-> k, cmdid |-> "cmd7", sender |-> PeerAddress,
      token_network_address |-> "tokennetwork1", target |-> t,
      initiator |-> PeerAddress, lock |-> Lock, message_identifier |-> "id2"]
        : k \in {"LockedTransfer", "LockedTransferSub"}, t \in {OwnAddress, OtherAddress}}

DeliveredMessages ==
    {[kind |-> "Delivered", cmdid |-> "cmd12", sender |-> PeerAddress,
      delivered_message_identifier |-> i] : i \in MessageIds}

ProcessedMessages ==
    {[kind |-> "Processed", cmdid |-> "cmd0", sender |-> PeerAddress,
      message_identifier |-> i] : i \in MessageIds}

ProcessedSubMessages ==
    {[kind |-> "ProcessedSub", cmdid |-> "cmd0", sender |-> PeerAddress,
      message_identifier |-> "id1"]}

PingMessages ==
    {[kind |-> "Ping", cmdid |-> "cmd1", sender |-> PeerAddress, nonce |-> "nonce1"]}

Messages ==
    SecretRequestMessages \cup RevealSecretMessages \cup UnlockMessages
        \cup LockExpiredMessages \cup RefundTransferMessages
        \cup LockedTransferMessages \cup DeliveredMessages
        \cup ProcessedMessages \cup ProcessedSubMessages \cup PingMessages

NoMessage == [kind |-> None]


-----------------------------------------------------------------------------
(* The record of one on_message call *)

NewCall(message, is_light_client) ==
    [msg |-> message, lc |-> is_light_client,
     handlers |-> <<>>,      \* handlers on_message entered
     subs |-> <<>>,          \* state changes raiden.handle_and_track_state_change took
     rejected |-> <<>>,      \* state changes whose handle_and_track_state_change raised
     logs |-> <<>>,          \* levels of the log records written
     flows |-> <<>>,         \* target_mediated_transfer / mediate_mediated_transfer calls
     stores |-> 0,           \* store_ack_message calls
     lookups |-> 0,          \* get_light_client_protocol_message_by_identifier calls
     checks |-> 0,           \* is_light_client_protocol_message_already_stored_message_id calls
     writes |-> <<>>,        \* records passed to store_light_client_protocol_message
     registry |-> <<>>,      \* is_secret_registered calls and their results
     proofCalls |-> 0,       \* balanceproof_from_envelope calls
     snapshots |-> <<>>,     \* chain states read by views.state_from_raiden
     routeCalls |-> 0,       \* get_best_routes calls
     observed |-> <<>>,      \* chain states passed to get_best_routes and to the views
     live |-> <<>>,          \* the node's chain state when get_best_routes returned
     resolved |-> <<>>,      \* route lists get_best_routes returned
     secretLookups |-> 0,    \* views.get_transfer_secret calls
     randomSecrets |-> 0]    \* random_secret calls

NoCall == NewCall(NoMessage, FALSE)
NoLocals == [handler |-> None]

Entered(c, handler) == [c EXCEPT !.handlers = Append(@, handler)]
Submitted(c, state_change) == [c EXCEPT !.subs = Append(@, state_change)]
\* the call that was to submit the state changes of c raised instead
Refused(c) == [c EXCEPT !.subs = <<>>, !.rejected = c.subs]
Logged(c, level) == [c EXCEPT !.logs = Append(@, level)]
Started(c, flow) == [c EXCEPT !.flows = Append(@, flow)]

-----------------------------------------------------------------------------
(* on_message: the if/elif chain over type(message) *)

HandlerForIsInstance(message) ==
    CASE BaseKind(message.kind) = "SecretRequest" -> "handle_message_secretrequest"
      [] BaseKind(message.kind) = "RevealSecret" -> "handle_message_revealsecret"
      [] BaseKind(message.kind) = "Unlock" -> "handle_message_unlock"
      [] BaseKind(message.kind) = "LockExpired" -> "handle_message_lockexpired"
      [] BaseKind(message.kind) = "RefundTransfer" -> "handle_message_refundtransfer"
      [] BaseKind(message.kind) = "LockedTransfer" -> "handle_message_lockedtransfer"
      [] BaseKind(message.kind) = "Delivered" -> "handle_message_delivered"
      [] BaseKind(message.kind) = "Processed" -> "handle_message_processed"
      [] OTHER -> "unknown"

HandlerFor(message) ==
    CASE message.kind = "SecretRequest" -> "handle_message_secretrequest"
      [] message.kind = "RevealSecret" -> "handle_message_revealsecret"
      [] message.kind = "Unlock" -> "handle_message_unlock"
      [] message.kind = "LockExpired" -> "handle_message_lockexpired"
      [] message.kind = "RefundTransfer" -> "handle_message_refundtransfer"
      [] message.kind = "LockedTransfer" -> "handle_message_lockedtransfer"
      [] message.kind = "Delivered" -> "handle_message_delivered"
      [] message.kind = "Processed" -> "handle_message_processed"
      [] OTHER -> "unknown"

-----------------------------------------------------------------------------
(* State changes built by the handlers *)

\* the plain variant is built whoever sent the message
SecretRequestStateChangePlain(message, is_light_client) ==
    [type |-> "ReceiveSecretRequest",
     payment_identifier |-> message.payment_identifier,
     amount |-> message.amount,
     expiration |-> message.expiration,
     secrethash |-> message.secrethash,
     sender |-> message.sender]

\* handle_message_secretrequest, lines 79-98
SecretRequestStateChange(message, is_light_client) ==
    IF is_light_client
    THEN [type |-> "ReceiveSecretRequestLight",
          payment_identifier |-> message.payment_identifier,
          amount |-> message.amount,
          expiration |-> message.expiration,
          secrethash |-> message.secrethash,
          sender |-> message.sender,
          secret_request_message |-> message]
    ELSE [type |-> "ReceiveSecretRequest",
          payment_identifier |-> message.payment_identifier,
          amount |-> message.amount,
          expiration |-> message.expiration,
          secrethash |-> message.secrethash,
          sender |-> message.sender]

RevealSecretStateChange(message, is_light_client) ==
    IF is_light_client
    THEN [type |-> "ReceiveSecretRevealLight", secret |-> message.secret,
          sender |-> message.sender, secret_reveal_message |-> message]
    ELSE [type |-> "ReceiveSecretReveal", secret |-> message.secret,
          sender |-> message.sender]

\* raiden.transfer.state.balanceproof_from_envelope
CanDeriveBalanceProof(message) == message.envelope # "badenvelope"
balanceproof_from_envelope(message) ==
    [envelope |-> message.envelope, sender |-> message.sender]

UnlockStateChange(message) ==
    [type |-> "ReceiveUnlock",
     message_identifier |-> message.message_identifier,
     secret |-> message.secret,
     balance_proof |-> balanceproof_from_envelope(message)]

LockExpiredStateChange(message) ==
    [type |-> "ReceiveLockExpired",
     balance_proof |-> balanceproof_from_envelope(message),
     secrethash |-> message.secrethash,
     message_identifier |-> message.message_identifier]

ProcessedStateChange(message) ==
    [type |-> "ReceiveProcessed", sender |-> message.sender,
     message_identifier |-> message.message_identifier]

DeliveredStateChange(message) ==
    [type |-> "ReceiveDelivered", sender |-> message.sender,
     message_identifier |-> message.delivered_message_identifier]

\* raiden.transfer.mediated_transfer.state.lockedtransfersigned_from_message
lockedtransfersigned_from_message(message) ==
    [message_identifier |-> message.message_identifier,
     token_network_address |-> message.token_network_address,
     lock |-> message.lock,
     initiator |-> message.initiator,
     target |-> message.target,
     sender |-> message.sender]

\* views.get_transfer_role, views.get_transfer_secret
get_transfer_role(chain_state, secrethash) == chain_state.role[secrethash]
get_transfer_secret(chain_state, secrethash) == chain_state.secret[secrethash]

\* raiden.utils.random_secret
RandomSecrets == Secrets \ {EMPTY_SECRET}

-----------------------------------------------------------------------------
(* LightClientMessageHandler and the light_client_protocol_message table *)

\* the Ordering Table: ordinal of an ack among the messages of a payment
get_order_for_ack(principal_type, ack_type) ==
    CASE principal_type = "LockedTransfer" /\ ack_type = "delivered" -> 2
      [] principal_type = "LockedTransfer" /\ ack_type = "processed" -> 3
      [] principal_type = "SecretRequest" /\ ack_type = "delivered" -> 6
      [] OTHER -> -1

\* a message body column holding no message (Python's None)
NoBody == [none |-> TRUE]

\* the principal messages of the light clients' payments, stored before any
\* ack for them arrives: one signed, one still unsigned
PrincipalRecords ==
    {[identifier |-> "id1", message_order |-> 1, light_client_payment_id |-> "lcpayment1",
      is_ack |-> FALSE, unsigned_message |-> [type |-> "LockedTransfer"],
      signed_message |-> [type |-> "LockedTransfer"]],
     [identifier |-> "id2", message_order |-> 5, light_client_payment_id |-> "lcpayment2",
      is_ack |-> FALSE, unsigned_message |-> [type |-> "SecretRequest"],
      signed_message |-> NoBody]}

RECURSIVE SumCopies(_, _)
SumCopies(S, B) ==
    IF S = {} THEN 0
    ELSE LET r == CHOOSE x \in S : TRUE
         IN CopiesIn(r, B) + SumCopies(S \ {r}, B)

\* how many stored records carry the triple
Stored(message_identifier, payment_id, order, log) ==
    SumCopies({r \in BagToSet(log) :
                  /\ r.identifier = message_identifier
                  /\ r.light_client_payment_id = payment_id
                  /\ r.message_order = order}, log)

HasPrincipal(message_identifier, log) ==
    \E r \in BagToSet(log) : r.identifier = message_identifier /\ ~r.is_ack

get_light_client_protocol_message_by_identifier(message_identifier, log) ==
    CHOOSE r \in BagToSet(log) : r.identifier = message_identifier /\ ~r.is_ack

is_light_client_protocol_message_already_stored_message_id(message_identifier, payment_id, order, log) ==
    Stored(message_identifier, payment_id, order, log) > 0

StoredRecord(message_identifier, message, signed, payment_id, order) ==
    [identifier |-> message_identifier, message_order |-> order,
     light_client_payment_id |-> payment_id, is_ack |-> signed,
     unsigned_message |-> NoBody, signed_message |-> message]

store_light_client_protocol_message(message_identifier, message, signed, payment_id, order, log) ==
    log (+) SetToBag({StoredRecord(message_identifier, message, signed, payment_id, order)})

\* message.__class__.__name__.lower()
ClassNameLower(message) ==
    CASE message.kind = "Delivered" -> "delivered"
      [] message.kind = "Processed" -> "processed"
      [] OTHER -> "other"

\* store_ack_message, lines 216-221
AckedIdentifier(message) ==
    IF message.kind = "Delivered"
    THEN message.delivered_message_identifier
    ELSE message.message_identifier

\* store_ack_message, lines 225-231
JsonMessage(protocol_message) ==
    IF protocol_message.signed_message = NoBody
    THEN protocol_message.unsigned_message
    ELSE protocol_message.signed_message

-----------------------------------------------------------------------------
(* Handler bodies as functions of the call record *)

\* the transfer is taken up although the registry reports the secret
LockedTransferEffectNoRegistryCheck(c, message, registered) ==
    LET asked == [c EXCEPT !.registry =
                     Append(@, [secrethash |-> message.lock.secrethash,
                                block_identifier |-> "latest",
                                registered |-> registered])]
    IN IF message.target = OwnAddress
       THEN Started(asked, [flow |-> "target_mediated_transfer", message |-> message])
       ELSE Started(asked, [flow |-> "mediate_mediated_transfer", message |-> message])

\* the comparison of line 194 is inverted
LockedTransferEffectSwapped(c, message, registered) ==
    LET asked == [c EXCEPT !.registry =
                     Append(@, [secrethash |-> message.lock.secrethash,
                                block_identifier |-> "latest",
                                registered |-> registered])]
    IN IF registered
       THEN Logged(asked, "warning")
       ELSE IF message.target # OwnAddress
            THEN Started(asked, [flow |-> "target_mediated_transfer", message |-> message])
            ELSE Started(asked, [flow |-> "mediate_mediated_transfer", message |-> message])

\* handle_message_lockedtransfer, lines 183-197
LockedTransferEffect(c, message, registered) ==
    LET asked == [c EXCEPT !.registry =
                     Append(@, [secrethash |-> message.lock.secrethash,
                                block_identifier |-> "latest",
                                registered |-> registered])]
    IN IF registered
       THEN Logged(asked, "warning")
       ELSE IF message.target = OwnAddress
            THEN Started(asked, [flow |-> "target_mediated_transfer", message |-> message])
            ELSE Started(asked, [flow |-> "mediate_mediated_transfer", message |-> message])

\* the routes are kept although the initiator holds no secret
RefundEffectKeepsRoutes(c, from_transfer, chain_state, resolved, secret) ==
    LET role == get_transfer_role(chain_state, from_transfer.lock.secrethash)
    IN IF role = "initiator"
       THEN Submitted([c EXCEPT !.secretLookups = @ + 1, !.randomSecrets = @ + 1],
                      [type |-> "ReceiveTransferRefundCancelRoute",
                       routes |-> resolved, transfer |-> from_transfer, secret |-> secret])
       ELSE Submitted(c, [type |-> "ReceiveTransferRefund",
                          transfer |-> from_transfer, routes |-> resolved])

\* the routes are dropped for every initiator
RefundEffectDropsRoutes(c, from_transfer, chain_state, resolved, secret) ==
    LET role == get_transfer_role(chain_state, from_transfer.lock.secrethash)
    IN IF role = "initiator"
       THEN Submitted([c EXCEPT !.secretLookups = @ + 1, !.randomSecrets = @ + 1],
                      [type |-> "ReceiveTransferRefundCancelRoute",
                       routes |-> <<>>, transfer |-> from_transfer, secret |-> secret])
       ELSE Submitted(c, [type |-> "ReceiveTransferRefund",
                          transfer |-> from_transfer, routes |-> resolved])

\* the secret is looked up before the role is tested, and the routes are
\* dropped for every role that holds no secret
RefundEffectLooksUpFirst(c, from_transfer, chain_state, resolved, secret) ==
    LET role == get_transfer_role(chain_state, from_transfer.lock.secrethash)
        old_secret == get_transfer_secret(chain_state, from_transfer.lock.secrethash)
        routes == IF old_secret = EMPTY_SECRET THEN <<>> ELSE resolved
        looked == [c EXCEPT !.secretLookups = @ + 1]
    IN IF role = "initiator"
       THEN Submitted([looked EXCEPT !.randomSecrets = @ + 1],
                      [type |-> "ReceiveTransferRefundCancelRoute",
                       routes |-> routes, transfer |-> from_transfer, secret |-> secret])
       ELSE Submitted(looked, [type |-> "ReceiveTransferRefund",
                               transfer |-> from_transfer, routes |-> routes])

\* handle_message_refundtransfer, lines 149-169
RefundEffect(c, from_transfer, chain_state, resolved, secret) ==
    LET role == get_transfer_role(chain_state, from_transfer.lock.secrethash)
        old_secret == get_transfer_secret(chain_state, from_transfer.lock.secrethash)
        routes == IF old_secret = EMPTY_SECRET THEN <<>> ELSE resolved
    IN IF role = "initiator"
       THEN Submitted([c EXCEPT !.secretLookups = @ + 1, !.randomSecrets = @ + 1],
                      [type |-> "ReceiveTransferRefundCancelRoute",
                       routes |-> routes, transfer |-> from_transfer, secret |-> secret])
       ELSE Submitted(c, [type |-> "ReceiveTransferRefund",
                          transfer |-> from_transfer, routes |-> resolved])

-----------------------------------------------------------------------------
(* Actions *)

Finish(p, c, outcome) ==
    /\ pc' = [pc EXCEPT ![p] = outcome]
    /\ cur' = [cur EXCEPT ![p] = c]
    /\ loc' = [loc EXCEPT ![p] = NoLocals]

Suspend(p, c, at, locals) ==
    /\ pc' = [pc EXCEPT ![p] = at]
    /\ cur' = [cur EXCEPT ![p] = c]
    /\ loc' = [loc EXCEPT ![p] = locals]

\* raiden.handle_and_track_state_change applies the state change to the
\* node's state machine, which yields the next chain state
handle_and_track_state_change == chainState' \in ChainStates

\* A handler whose last statement is the submission of the state change in
\* c: the pipeline takes it and the handler returns, or the call raises and
\* on_message raises with it.
SubmitAndReturn(p, c) ==
    /\ \/ Finish(p, c, "done")
       \/ Finish(p, Refused(c), "raised")
    /\ handle_and_track_state_change

handle_message_secretrequest(p, call, message, is_light_client) ==
    LET c == Entered(call, "handle_message_secretrequest")
    IN /\ SubmitAndReturn(p, Submitted(c, SecretRequestStateChange(message, is_light_client)))
       /\ UNCHANGED wal

\* both variants are submitted: the else of line 106 is lost
handle_message_revealsecret_both(p, call, message, is_light_client) ==
    LET c == Entered(call, "handle_message_revealsecret")
    IN /\ Finish(p, Submitted(Submitted(c, RevealSecretStateChange(message, TRUE)),
                              RevealSecretStateChange(message, FALSE)), "done")
       /\ handle_and_track_state_change
       /\ UNCHANGED wal

handle_message_revealsecret(p, call, message, is_light_client) ==
    LET c == Entered(call, "handle_message_revealsecret")
    IN /\ SubmitAndReturn(p, Submitted(c, RevealSecretStateChange(message, is_light_client)))
       /\ UNCHANGED wal

\* a failed derivation is logged and the message dropped
handle_message_unlock_swallows(p, call, message) ==
    LET c == [Entered(call, "handle_message_unlock")
                 EXCEPT !.proofCalls = @ + 1]
    IN IF CanDeriveBalanceProof(message)
       THEN /\ Finish(p, Submitted(c, UnlockStateChange(message)), "done")
            /\ handle_and_track_state_change
            /\ UNCHANGED wal
       ELSE /\ Finish(p, Logged(c, "error"), "done")
            /\ UNCHANGED <<wal, chainState>>

handle_message_unlock(p, call, message) ==
    LET c == [Entered(call, "handle_message_unlock")
                 EXCEPT !.proofCalls = @ + 1]
    IN IF CanDeriveBalanceProof(message)
       THEN /\ SubmitAndReturn(p, Submitted(c, UnlockStateChange(message)))
            /\ UNCHANGED wal
       ELSE /\ Finish(p, c, "raised")
            /\ UNCHANGED <<wal, chainState>>

handle_message_lockexpired(p, call, message) ==
    LET c == [Entered(call, "handle_message_lockexpired")
                 EXCEPT !.proofCalls = @ + 1]
    IN IF CanDeriveBalanceProof(message)
       THEN /\ SubmitAndReturn(p, Submitted(c, LockExpiredStateChange(message)))
            /\ UNCHANGED wal
       ELSE /\ Finish(p, c, "raised")
            /\ UNCHANGED <<wal, chainState>>

\* lines 132-134: the transfer is rebuilt and the chain state is read, then
\* get_best_routes blocks
handle_message_refundtransfer(p, call, message) ==
    LET c == [Entered(call, "handle_message_refundtransfer")
                 EXCEPT !.snapshots = Append(@, chainState)]
    IN /\ Suspend(p, c, "get_best_routes",
                  [handler |-> "handle_message_refundtransfer",
                   from_transfer |-> lockedtransfersigned_from_message(message),
                   chain_state |-> chainState])
       /\ UNCHANGED <<wal, chainState>>

\* the chain state is read again after get_best_routes has returned
RefundRoutesResolvedRereads(p) ==
    /\ pc[p] = "get_best_routes"
    /\ \E resolved \in RouteLists, secret \in RandomSecrets :
          SubmitAndReturn(p, RefundEffect([cur[p] EXCEPT !.routeCalls = @ + 1,
                                                       !.resolved = Append(@, resolved),
                                                       !.observed = <<loc[p].chain_state,
                                                                      chainState>>,
                                                       !.live = Append(@, chainState)],
                                          loc[p].from_transfer, chainState,
                                          resolved, secret))
    /\ UNCHANGED wal

\* lines 137-169: get_best_routes returns a route list; the role and the
\* secret are looked up in the chain_state of line 134
RefundRoutesResolved(p) ==
    /\ pc[p] = "get_best_routes"
    /\ \E resolved \in RouteLists, secret \in RandomSecrets :
          SubmitAndReturn(p, RefundEffect([cur[p] EXCEPT !.routeCalls = @ + 1,
                                                       !.resolved = Append(@, resolved),
                                                       !.observed = <<loc[p].chain_state,
                                                                      loc[p].chain_state>>,
                                                       !.live = Append(@, chainState)],
                                          loc[p].from_transfer, loc[p].chain_state,
                                          resolved, secret))
    /\ UNCHANGED wal

\* lines 137-147: get_best_routes raises
RefundRoutesFailed(p) ==
    /\ pc[p] = "get_best_routes"
    /\ Finish(p, [cur[p] EXCEPT !.routeCalls = @ + 1,
                                !.observed = <<loc[p].chain_state>>,
                                !.live = Append(@, chainState)], "raised")
    /\ UNCHANGED <<wal, chainState>>

\* a light client's transfer is mediated without asking the registry
handle_message_lockedtransfer_light(p, call, message) ==
    LET c == Entered(call, "handle_message_lockedtransfer")
    IN /\ IF call.lc
          THEN Finish(p, Started(c, [flow |-> "mediate_mediated_transfer",
                                     message |-> message]), "done")
          ELSE \E registered \in BOOLEAN :
                  Finish(p, LockedTransferEffect(c, message, registered), "done")
       /\ UNCHANGED <<wal, chainState>>

handle_message_lockedtransfer(p, call, message) ==
    LET c == Entered(call, "handle_message_lockedtransfer")
    IN /\ \E registered \in BOOLEAN :
             Finish(p, LockedTransferEffect(c, message, registered), "done")
       /\ UNCHANGED <<wal, chainState>>

\* store_ack_message is entered whoever sent the ack
AckHandlerAlwaysStores(p, call, message, is_light_client, handler, state_change) ==
    LET c == Submitted(Entered(call, handler), state_change)
    IN /\ Suspend(p, [c EXCEPT !.stores = @ + 1], "store_ack_message",
                  [handler |-> "store_ack_message"])
       /\ handle_and_track_state_change
       /\ UNCHANGED wal

\* lines 201-204 and 208-211: the state change is submitted, then
\* store_ack_message is entered for a light client
AckHandler(p, call, message, is_light_client, handler, state_change) ==
    LET c == Submitted(Entered(call, handler), state_change)
    IN /\ \/ IF is_light_client
             THEN Suspend(p, [c EXCEPT !.stores = @ + 1], "store_ack_message",
                          [handler |-> "store_ack_message"])
             ELSE Finish(p, c, "done")
          \/ Finish(p, Refused(c), "raised")
       /\ handle_and_track_state_change
       /\ UNCHANGED wal

handle_message_processed(p, call, message, is_light_client) ==
    AckHandler(p, call, message, is_light_client, "handle_message_processed",
               ProcessedStateChange(message))

handle_message_delivered(p, call, message, is_light_client) ==
    AckHandler(p, call, message, is_light_client, "handle_message_delivered",
               DeliveredStateChange(message))

\* the unknown message is logged and then rejected with an exception
UnknownMessageRaises(p, call, message) ==
    /\ Finish(p, Logged(call, "error"), "raised")
    /\ UNCHANGED <<wal, chainState>>

\* line 75
UnknownMessage(p, call, message) ==
    /\ Finish(p, Logged(call, "error"), "done")
    /\ UNCHANGED <<wal, chainState>>

on_message(p, message, is_light_client) ==
    /\ pc[p] = "idle"
    /\ LET h == HandlerFor(message)
           call == NewCall(message, is_light_client)
       IN \/ h = "handle_message_secretrequest"
             /\ handle_message_secretrequest(p, call, message, is_light_client)
          \/ h = "handle_message_revealsecret"
             /\ handle_message_revealsecret(p, call, message, is_light_client)
          \/ h = "handle_message_unlock"
             /\ handle_message_unlock(p, call, message)
          \/ h = "handle_message_lockexpired"
             /\ handle_message_lockexpired(p, call, message)
          \/ h = "handle_message_refundtransfer"
             /\ handle_message_refundtransfer(p, call, message)
          \/ h = "handle_message_lockedtransfer"
             /\ handle_message_lockedtransfer(p, call, message)
          \/ h = "handle_message_delivered"
             /\ handle_message_delivered(p, call, message, is_light_client)
          \/ h = "handle_message_processed"
             /\ handle_message_processed(p, call, message, is_light_client)
          \/ h = "unknown"
             /\ UnknownMessage(p, call, message)

\* the ordinal is not tested against -1: the ack goes on to the existence
\* check under the ordinal -1
AckLookupNoOrderTest(p) ==
    /\ pc[p] = "store_ack_message"
    /\ LET message == cur[p].msg
           message_identifier == AckedIdentifier(message)
           c == [cur[p] EXCEPT !.lookups = @ + 1]
       IN IF ~HasPrincipal(message_identifier, wal)
          THEN Finish(p, c, "raised")
          ELSE LET protocol_message ==
                       get_light_client_protocol_message_by_identifier(message_identifier, wal)
                   json_message == JsonMessage(protocol_message)
                   order == get_order_for_ack(json_message.type, ClassNameLower(message))
               IN Suspend(p, c, "exists",
                          [handler |-> "store_ack_message",
                           message_identifier |-> message_identifier,
                           light_client_payment_id |->
                               protocol_message.light_client_payment_id,
                           order |-> order])
    /\ UNCHANGED <<wal, chainState>>

\* store_ack_message, lines 216-235: the principal message is looked up and
\* the ordinal of the ack is taken from the ordering table
AckLookup(p) ==
    /\ pc[p] = "store_ack_message"
    /\ LET message == cur[p].msg
           message_identifier == AckedIdentifier(message)
           c == [cur[p] EXCEPT !.lookups = @ + 1]
       IN IF ~HasPrincipal(message_identifier, wal)
          THEN Finish(p, c, "raised")
          ELSE LET protocol_message ==
                       get_light_client_protocol_message_by_identifier(message_identifier, wal)
                   json_message == JsonMessage(protocol_message)
                   order == get_order_for_ack(json_message.type, ClassNameLower(message))
               IN IF order = -1
                  THEN Finish(p, Logged(c, "error"), "done")
                  ELSE Suspend(p, c, "exists",
                               [handler |-> "store_ack_message",
                                message_identifier |-> message_identifier,
                                light_client_payment_id |->
                                    protocol_message.light_client_payment_id,
                                order |-> order])
    /\ UNCHANGED <<wal, chainState>>

\* the result of the existence check is not used
AckCheckAlwaysStores(p) ==
    /\ pc[p] = "exists"
    /\ Suspend(p, [cur[p] EXCEPT !.checks = @ + 1], "store", loc[p])
    /\ UNCHANGED <<wal, chainState>>

\* store_ack_message, lines 237-239 and 243-244: the existence check
AckCheck(p) ==
    /\ pc[p] = "exists"
    /\ LET c == [cur[p] EXCEPT !.checks = @ + 1]
           exists == is_light_client_protocol_message_already_stored_message_id(
                         loc[p].message_identifier, loc[p].light_client_payment_id,
                         loc[p].order, wal)
       IN IF ~exists
          THEN Suspend(p, c, "store", loc[p])
          ELSE Finish(p, Logged(c, "info"), "done")
    /\ UNCHANGED <<wal, chainState>>

\* the record is stored without the mark of line 241
AckWriteUnmarked(p) ==
    /\ pc[p] = "store"
    /\ wal' = store_light_client_protocol_message(
                  loc[p].message_identifier, cur[p].msg, FALSE,
                  loc[p].light_client_payment_id, loc[p].order, wal)
    /\ Finish(p, [cur[p] EXCEPT !.writes =
                     Append(@, StoredRecord(loc[p].message_identifier, cur[p].msg, FALSE,
                                            loc[p].light_client_payment_id, loc[p].order))],
              "done")
    /\ UNCHANGED chainState

\* store_ack_message, lines 240-242: the write
AckWrite(p) ==
    /\ pc[p] = "store"
    /\ wal' = store_light_client_protocol_message(
                  loc[p].message_identifier, cur[p].msg, TRUE,
                  loc[p].light_client_payment_id, loc[p].order, wal)
    /\ Finish(p, [cur[p] EXCEPT !.writes =
                     Append(@, StoredRecord(loc[p].message_identifier, cur[p].msg, TRUE,
                                            loc[p].light_client_payment_id, loc[p].order))],
              "done")
    /\ UNCHANGED chainState

\* on_message has returned or raised; the caller goes on to its next message
Return(p) ==
    /\ pc[p] \in {"done", "raised"}
    /\ Finish(p, NoCall, "idle")
    /\ UNCHANGED <<wal, chainState>>

\* the steps of store_ack_message and the return of on_message
AckStep(p) ==
    \/ AckLookup(p)
    \/ AckCheck(p)
    \/ AckWrite(p)
    \/ Return(p)

Step(p) ==
    \/ RefundRoutesResolved(p)
    \/ RefundRoutesFailed(p)
    \/ AckStep(p)

Init ==
    /\ pc = [p \in Procs |-> "idle"]
    /\ cur = [p \in Procs |-> NoCall]
    /\ loc = [p \in Procs |-> NoLocals]
    /\ wal = SetToBag(PrincipalRecords)
    /\ chainState \in ChainStates

\* no other call of on_message is in progress
Quiescent(p) == \A q \in Procs \ {p} : pc[q] = "idle"

\* Each message is handled to completion before the next one is dispatched.
Dispatch(p) ==
    /\ Quiescent(p)
    /\ \E message \in Messages, is_light_client \in BOOLEAN :
          on_message(p, message, is_light_client)

Next == \E p \in Procs : Dispatch(p) \/ Step(p)

Spec == Init /\ [][Next]_vars

\* the messages whose handling reads and writes the ack store, and a message
\* handled in one step
ConcurrentMessages ==
    DeliveredMessages \cup ProcessedMessages \cup RevealSecretMessages

\* The surrounding service dispatches messages concurrently.
DispatchConcurrently(p) ==
    \E message \in ConcurrentMessages, is_light_client \in BOOLEAN :
        on_message(p, message, is_light_client)

NextConc == \E p \in Procs : DispatchConcurrently(p) \/ AckStep(p)

SpecConc == Init /\ [][NextConc]_vars

\* While a handler is blocked in get_best_routes the service applies the
\* state changes of other messages.
OtherStateChangeApplied ==
    /\ \E p \in Procs : pc[p] = "get_best_routes"
    /\ chainState' \in ChainStates \ {chainState}
    /\ UNCHANGED <<pc, cur, loc, wal>>

NextBlocking == Next \/ OtherStateChangeApplied

SpecBlocking == Init /\ [][NextBlocking]_vars

-----------------------------------------------------------------------------
(* Properties *)

Ended(p) == pc[p] \in {"done", "raised"}
Kind(p) == cur[p].msg.kind
AckKinds == {"Delivered", "Processed"}

\* C1: in every reachable state the table holds at most one record per
\* (message identifier, payment identifier, ordinal) triple, also when
\* dispatches of the same ack interleave their existence check and write.
C1_AtMostOneRecordPerTriple ==
    \A r \in BagToSet(wal) :
        Stored(r.identifier, r.light_client_payment_id, r.message_order, wal) <= 1

ExpectedHandler ==
    [k \in RecognizedKinds |->
        CASE k = "SecretRequest" -> "handle_message_secretrequest"
          [] k = "RevealSecret" -> "handle_message_revealsecret"
          [] k = "Unlock" -> "handle_message_unlock"
          [] k = "LockExpired" -> "handle_message_lockexpired"
          [] k = "RefundTransfer" -> "handle_message_refundtransfer"
          [] k = "LockedTransfer" -> "handle_message_lockedtransfer"
          [] k = "Delivered" -> "handle_message_delivered"
          [] k = "Processed" -> "handle_message_processed"]

\* C2: a message whose kind is not exactly one of the eight recognized kinds
\* enters no handler, submits no state change, starts no flow, touches no
\* store and is logged as an error; a handler that is entered is the one of
\* the message's exact kind.
C2_ExactKindOnly ==
    \A p \in Procs :
        pc[p] # "idle" =>
            /\ Kind(p) \notin RecognizedKinds =>
                  /\ cur[p].handlers = <<>>
                  /\ cur[p].subs = <<>>
                  /\ cur[p].flows = <<>>
                  /\ cur[p].stores = 0
                  /\ cur[p].logs = <<"error">>
            /\ \A i \in DOMAIN cur[p].handlers :
                  /\ Kind(p) \in RecognizedKinds
                  /\ cur[p].handlers[i] = ExpectedHandler[Kind(p)]

C2_Witness ==
    \E p \in Procs :
        /\ pc[p] = "done"
        /\ Kind(p) = "LockedTransferSub"
        /\ cur[p].logs = <<"error">>
        /\ cur[p].handlers = <<>>

\* C3 as stated: a dispatch of a recognized kind that returns has entered
\* exactly one handler and produced exactly one state-change submission (a
\* flow handed the message counts as its submission), plus exactly one store
\* attempt for Processed/Delivered from a light client.
C3_OneHandlerOneSubmission ==
    \A p \in Procs :
        (pc[p] = "done" /\ Kind(p) \in RecognizedKinds) =>
            /\ Len(cur[p].handlers) = 1
            /\ Len(cur[p].subs) + Len(cur[p].flows) = 1
            /\ cur[p].stores = IF Kind(p) \in AckKinds /\ cur[p].lc THEN 1 ELSE 0

\* C3 amended: a dispatch of a recognized kind enters exactly one handler.
\* When it returns it has submitted exactly one state change, except for
\* LockedTransfer, whose handler submits none: it starts exactly one flow when
\* the secret is not registered and only logs a warning when it is.  A
\* Processed/Delivered dispatch whose submission the pipeline took has
\* submitted its one state change and, from a light client, made exactly one
\* store attempt, however the store ends.
C3_OneHandlerAtMostOneSubmission ==
    \A p \in Procs :
        (Ended(p) /\ Kind(p) \in RecognizedKinds) =>
            /\ Len(cur[p].handlers) = 1
            /\ (pc[p] = "done" /\ Kind(p) # "LockedTransfer") => Len(cur[p].subs) = 1
            /\ Kind(p) = "LockedTransfer" =>
                  /\ pc[p] = "done"
                  /\ cur[p].subs = <<>>
                  /\ Len(cur[p].registry) = 1
                  /\ Len(cur[p].flows) = IF cur[p].registry[1].registered THEN 0 ELSE 1
                  /\ cur[p].logs = IF cur[p].registry[1].registered
                                   THEN <<"warning">> ELSE <<>>
            /\ Len(cur[p].subs) + Len(cur[p].rejected) <= 1
            /\ (Kind(p) \in AckKinds /\ cur[p].rejected = <<>>) =>
                  /\ Len(cur[p].subs) = 1
                  /\ cur[p].stores = IF cur[p].lc THEN 1 ELSE 0
            /\ Kind(p) \notin AckKinds => cur[p].stores = 0
            /\ Kind(p) # "LockedTransfer" => cur[p].flows = <<>>

C3_Witness ==
    \E p \in Procs :
        /\ pc[p] = "done" /\ Kind(p) = "Delivered" /\ cur[p].lc
        /\ Len(cur[p].handlers) = 1
        /\ Len(cur[p].subs) = 1
        /\ cur[p].stores = 1
        /\ Len(cur[p].writes) = 1

\* C4: the dispatch of a message of an unrecognized kind is one step that
\* returns normally with no state change submitted, no flow started, no store
\* access and exactly one error logged, and that leaves the table, the chain
\* state and every other caller as they were.
C4_UnrecognizedIsDropped ==
    [][\A p \in Procs :
          (pc[p] = "idle" /\ pc'[p] # "idle" /\ cur'[p].msg.kind \notin RecognizedKinds) =>
              /\ pc'[p] = "done"
              /\ cur'[p].subs = <<>>
              /\ cur'[p].flows = <<>>
              /\ cur'[p].stores = 0
              /\ cur'[p].writes = <<>>
              /\ cur'[p].logs = <<"error">>
              /\ wal' = wal
              /\ chainState' = chainState
              /\ \A q \in Procs \ {p} : pc'[q] = pc[q] /\ cur'[q] = cur[q]]_vars

C4_Witness ==
    \E p \in Procs :
        /\ pc[p] = "done"
        /\ Kind(p) = "Ping"
        /\ cur[p].logs = <<"error">>
        /\ cur[p].subs = <<>>

IsLockedTransferDone(p) ==
    /\ pc[p] = "done"
    /\ Kind(p) = "LockedTransfer"
    /\ Len(cur[p].registry) = 1

\* C5: a LockedTransfer whose secret hash the registry reports as registered
\* at block "latest" submits no state change and starts neither the target
\* nor the mediation flow; it logs one warning.
C5_RegisteredSecretIsDropped ==
    \A p \in Procs :
        (pc[p] = "done" /\ Kind(p) = "LockedTransfer") =>
            /\ Len(cur[p].registry) = 1
            /\ cur[p].registry[1].block_identifier = "latest"
            /\ cur[p].registry[1].secrethash = cur[p].msg.lock.secrethash
            /\ cur[p].registry[1].registered =>
                  /\ cur[p].subs = <<>>
                  /\ cur[p].flows = <<>>
                  /\ cur[p].logs = <<"warning">>

C5_Witness ==
    \E p \in Procs :
        /\ IsLockedTransferDone(p)
        /\ cur[p].registry[1].registered
        /\ cur[p].logs = <<"warning">>
        /\ cur[p].flows = <<>>

\* C6: a LockedTransfer with an unregistered secret starts exactly one flow:
\* the target flow if the message's target is the node's own address, the
\* mediation flow otherwise.
C6_ExactlyOneFlow ==
    \A p \in Procs :
        (IsLockedTransferDone(p) /\ ~cur[p].registry[1].registered) =>
            /\ Len(cur[p].flows) = 1
            /\ cur[p].flows[1].message = cur[p].msg
            /\ cur[p].flows[1].flow =
                  IF cur[p].msg.target = OwnAddress
                  THEN "target_mediated_transfer"
                  ELSE "mediate_mediated_transfer"

C6_Witness ==
    \E p \in Procs :
        /\ IsLockedTransferDone(p)
        /\ ~cur[p].registry[1].registered
        /\ cur[p].msg.target = OwnAddress
        /\ cur[p].flows[1].flow = "target_mediated_transfer"

IsRefundDone(p) ==
    /\ pc[p] = "done"
    /\ Kind(p) = "RefundTransfer"

\* the role and the secret the handler read from its chain state
RefundRole(p) == cur[p].snapshots[1].role[cur[p].msg.lock.secrethash]
RefundOldSecret(p) == cur[p].snapshots[1].secret[cur[p].msg.lock.secrethash]

\* C7: a RefundTransfer handled as initiator with no known secret submits one
\* refund-with-cancel-route state change whose route list is empty, whatever
\* get_best_routes returned, and whose secret is not the empty sentinel.
C7_InitiatorWithoutSecretDropsRoutes ==
    \A p \in Procs :
        (IsRefundDone(p) /\ RefundRole(p) = "initiator"
            /\ RefundOldSecret(p) = EMPTY_SECRET) =>
            /\ Len(cur[p].subs) = 1
            /\ cur[p].subs[1].type = "ReceiveTransferRefundCancelRoute"
            /\ cur[p].subs[1].routes = <<>>
            /\ cur[p].subs[1].secret # EMPTY_SECRET
            /\ cur[p].randomSecrets = 1

C7_Witness ==
    \E p \in Procs :
        /\ IsRefundDone(p)
        /\ RefundRole(p) = "initiator"
        /\ RefundOldSecret(p) = EMPTY_SECRET
        /\ Len(cur[p].resolved[1]) = MaxRoutes
        /\ cur[p].subs[1].routes = <<>>

\* C8: a RefundTransfer handled as initiator with a known secret submits a
\* refund-with-cancel-route state change carrying the route list
\* get_best_routes returned, in the same order.
C8_InitiatorWithSecretKeepsRoutes ==
    \A p \in Procs :
        (IsRefundDone(p) /\ RefundRole(p) = "initiator"
            /\ RefundOldSecret(p) # EMPTY_SECRET) =>
            /\ Len(cur[p].subs) = 1
            /\ cur[p].subs[1].type = "ReceiveTransferRefundCancelRoute"
            /\ cur[p].subs[1].routes = cur[p].resolved[1]

C8_Witness ==
    \E p \in Procs :
        /\ IsRefundDone(p)
        /\ RefundRole(p) = "initiator"
        /\ RefundOldSecret(p) # EMPTY_SECRET
        /\ Len(cur[p].resolved[1]) = MaxRoutes
        /\ cur[p].subs[1].routes = cur[p].resolved[1]

\* C9: a RefundTransfer handled as mediator or target submits one plain
\* transfer-refund state change carrying the rebuilt transfer and the route
\* list get_best_routes returned, with no secret field; the known secret is
\* not looked up and no secret is generated.
C9_NonInitiatorPlainRefund ==
    \A p \in Procs :
        (IsRefundDone(p) /\ RefundRole(p) # "initiator") =>
            /\ cur[p].subs =
                  <<[type |-> "ReceiveTransferRefund",
                     transfer |-> lockedtransfersigned_from_message(cur[p].msg),
                     routes |-> cur[p].resolved[1]]>>
            /\ cur[p].secretLookups = 0
            /\ cur[p].randomSecrets = 0

C9_Witness ==
    \E p \in Procs :
        /\ IsRefundDone(p)
        /\ RefundRole(p) = "mediator"
        /\ Len(cur[p].resolved[1]) = MaxRoutes
        /\ cur[p].subs[1].type = "ReceiveTransferRefund"
        /\ cur[p].subs[1].routes = cur[p].resolved[1]

\* C10: when store_ack_message ends after its existence check, the table
\* holds exactly one record for the ack's triple; an invocation that finds
\* the triple stored, as the second of two in sequence does, writes nothing
\* and logs exactly one informational record.
C10_StoreAckIdempotent ==
    [][\A p \in Procs :
          (pc[p] \in {"exists", "store"} /\ pc'[p] = "done") =>
              /\ Stored(loc[p].message_identifier, loc[p].light_client_payment_id,
                        loc[p].order, wal') = 1
              /\ Stored(loc[p].message_identifier, loc[p].light_client_payment_id,
                        loc[p].order, wal) >= 1 =>
                    /\ wal' = wal
                    /\ cur'[p].writes = <<>>
                    /\ cur'[p].logs = <<"info">>]_vars

C10_Witness ==
    \E p \in Procs :
        /\ pc[p] = "done"
        /\ Kind(p) = "Processed"
        /\ cur[p].lc
        /\ cur[p].checks = 1
        /\ cur[p].writes = <<>>
        /\ cur[p].logs = <<"info">>
        /\ Stored("id1", "lcpayment1", 3, wal) = 1

\* the ordinal the ordering table gives the ack of caller p, whose principal
\* message is stored
AckOrder(p) ==
    get_order_for_ack(
        JsonMessage(get_light_client_protocol_message_by_identifier(
                        AckedIdentifier(cur[p].msg), wal)).type,
        ClassNameLower(cur[p].msg))

\* C11: when the ordering table has no pairing for the principal message's
\* kind and the ack's kind, store_ack_message ends normally in the step that
\* read the ordinal: nothing is written, the existence check is not made and
\* exactly one error is logged.
C11_NoPairingIsLoggedAndDropped ==
    [][\A p \in Procs :
          (/\ pc[p] = "store_ack_message"
           /\ pc'[p] # pc[p]
           /\ HasPrincipal(AckedIdentifier(cur[p].msg), wal)
           /\ AckOrder(p) = -1) =>
              /\ pc'[p] = "done"
              /\ wal' = wal
              /\ cur'[p].writes = <<>>
              /\ cur'[p].checks = 0
              /\ cur'[p].logs = <<"error">>]_vars

C11_Witness ==
    \E p \in Procs :
        /\ pc[p] = "done"
        /\ Kind(p) = "Processed"
        /\ cur[p].lc
        /\ AckedIdentifier(cur[p].msg) = "id2"
        /\ cur[p].lookups = 1
        /\ cur[p].checks = 0
        /\ cur[p].logs = <<"error">>

\* C12: a dispatch that ends by raising to its caller has submitted no state
\* change.
C12_NoPartialApplication ==
    \A p \in Procs : pc[p] = "raised" => cur[p].subs = <<>>

\* a collaborator call of p's dispatch was made and did not return
ProofFailed(p) ==
    /\ Kind(p) \in {"Unlock", "LockExpired"}
    /\ ~CanDeriveBalanceProof(cur[p].msg)
RoutesFailed(p) ==
    /\ Kind(p) = "RefundTransfer"
    /\ cur[p].routeCalls > Len(cur[p].resolved)

\* C13: when balance-proof derivation (Unlock, LockExpired) or route
\* resolution (RefundTransfer) fails, the dispatch raises to the caller, the
\* failing call was made exactly once and no state change is submitted.
C13_CollaboratorFailurePropagates ==
    \A p \in Procs :
        /\ (pc[p] # "idle" /\ ProofFailed(p)) =>
              /\ pc[p] = "raised"
              /\ cur[p].proofCalls = 1
              /\ cur[p].subs = <<>>
              /\ cur[p].rejected = <<>>
              /\ cur[p].logs = <<>>
        /\ (pc[p] # "idle" /\ RoutesFailed(p)) =>
              /\ pc[p] = "raised"
              /\ cur[p].routeCalls = 1
              /\ cur[p].subs = <<>>
              /\ cur[p].rejected = <<>>
              /\ cur[p].logs = <<>>

C13_Witness ==
    \E p \in Procs :
        /\ pc[p] = "raised"
        /\ Kind(p) = "LockExpired"
        /\ ~CanDeriveBalanceProof(cur[p].msg)
        /\ cur[p].proofCalls = 1
        /\ cur[p].subs = <<>>

\* C14: for a Processed or Delivered message from a light client both the
\* state-change submission and the store attempt are made, whichever of the
\* two fails.
C14_BothAlwaysAttempted ==
    \A p \in Procs :
        (Ended(p) /\ Kind(p) \in AckKinds /\ cur[p].lc) =>
            /\ Len(cur[p].subs) + Len(cur[p].rejected) = 1
            /\ cur[p].stores = 1

\* C15: store_ack_message does not raise, whatever ack it is given, also one
\* whose acknowledged message has no principal record in the table.
C15_StoreAckNeverRaises ==
    \A p \in Procs :
        (Kind(p) \in AckKinds /\ cur[p].stores = 1) => pc[p] # "raised"

\* the state changes p's dispatch handed to the pipeline, taken or not
Handed(p) == cur[p].subs \o cur[p].rejected

\* C16: every dispatch of a Processed or Delivered message hands the pipeline
\* exactly one acknowledgment state change carrying the sender and the
\* acknowledged message identifier, from a light client or not, stored
\* before or not; the store is entered, read and written only for a light
\* client.
C16_AckAlwaysSubmittedStoreOnlyForLightClient ==
    \A p \in Procs :
        (pc[p] # "idle" /\ Kind(p) \in AckKinds) =>
            /\ Handed(p) =
                  <<IF Kind(p) = "Delivered"
                    THEN [type |-> "ReceiveDelivered", sender |-> cur[p].msg.sender,
                          message_identifier |-> cur[p].msg.delivered_message_identifier]
                    ELSE [type |-> "ReceiveProcessed", sender |-> cur[p].msg.sender,
                          message_identifier |-> cur[p].msg.message_identifier]>>
            /\ ~cur[p].lc =>
                  /\ pc[p] \in {"done", "raised"}
                  /\ cur[p].stores = 0
                  /\ cur[p].lookups = 0
                  /\ cur[p].checks = 0
                  /\ cur[p].writes = <<>>
            /\ cur[p].stores <= 1

C16_Witness ==
    \E p \in Procs :
        /\ pc[p] = "done"
        /\ Kind(p) = "Delivered"
        /\ cur[p].lc
        /\ cur[p].logs = <<"info">>
        /\ Len(cur[p].subs) = 1
        /\ cur[p].subs[1].message_identifier = "id1"

\* the principal record of the message p's ack acknowledges
AckPrincipal(p) ==
    CHOOSE r \in PrincipalRecords : r.identifier = AckedIdentifier(cur[p].msg)

\* the record C17 expects store_ack_message to write for p's ack
AckRecord(p) ==
    [identifier |->
         IF Kind(p) = "Delivered"
         THEN cur[p].msg.delivered_message_identifier
         ELSE cur[p].msg.message_identifier,
     message_order |-> AckOrder(p),
     light_client_payment_id |-> AckPrincipal(p).light_client_payment_id,
     is_ack |-> TRUE,
     unsigned_message |-> NoBody,
     signed_message |-> cur[p].msg]

\* C17: the record store_ack_message writes is keyed by the acknowledged
\* message identifier, holds the ack, is marked as an acknowledgment and
\* carries the principal record's payment identifier and the ordinal of the
\* ordering table; the existence check was made with the same identifier,
\* payment identifier and ordinal.
C17_WrittenRecord ==
    \A p \in Procs :
        /\ pc[p] \in {"exists", "store"} =>
              /\ loc[p].message_identifier = AckRecord(p).identifier
              /\ loc[p].light_client_payment_id = AckRecord(p).light_client_payment_id
              /\ loc[p].order = AckRecord(p).message_order
        /\ cur[p].writes # <<>> =>
              /\ cur[p].writes = <<AckRecord(p)>>
              /\ cur[p].checks = 1
              /\ BagIn(AckRecord(p), wal)

C17_Witness ==
    \E p \in Procs :
        /\ pc[p] = "done"
        /\ Kind(p) = "Delivered"
        /\ cur[p].msg.delivered_message_identifier = "id2"
        /\ Len(cur[p].writes) = 1
        /\ cur[p].writes[1].light_client_payment_id = "lcpayment2"
        /\ cur[p].writes[1].message_order = 6
        /\ BagIn(cur[p].writes[1], wal)

\* C18: the route resolution, the role resolution and the secret lookup of
\* one refund dispatch are given the chain state read at the start of the
\* handling, and the state change is the one that snapshot determines, also
\* when other state changes are applied while get_best_routes blocks.
C18_OneSnapshot ==
    \A p \in Procs :
        (pc[p] # "idle" /\ Kind(p) = "RefundTransfer") =>
            /\ Len(cur[p].snapshots) = 1
            /\ \A i \in DOMAIN cur[p].observed : cur[p].observed[i] = cur[p].snapshots[1]
            /\ \A i \in DOMAIN Handed(p) :
                  IF RefundRole(p) = "initiator"
                  THEN /\ Handed(p)[i].type = "ReceiveTransferRefundCancelRoute"
                       /\ Handed(p)[i].routes =
                             IF RefundOldSecret(p) = EMPTY_SECRET
                             THEN <<>> ELSE cur[p].resolved[1]
                  ELSE /\ Handed(p)[i].type = "ReceiveTransferRefund"
                       /\ Handed(p)[i].routes = cur[p].resolved[1]

C18_Witness ==
    \E p \in Procs :
        /\ pc[p] = "done"
        /\ Kind(p) = "RefundTransfer"
        /\ RefundRole(p) = "initiator"
        /\ RefundOldSecret(p) # EMPTY_SECRET
        /\ cur[p].live[1].role[cur[p].msg.lock.secrethash] # "initiator"
        /\ cur[p].observed = <<cur[p].snapshots[1], cur[p].snapshots[1]>>
        /\ cur[p].subs[1].type = "ReceiveTransferRefundCancelRoute"
        /\ cur[p].subs[1].routes # <<>>

\* C19: a SecretRequest or RevealSecret dispatch hands the pipeline exactly
\* one state change, and the flag alone selects its variant: the Light
\* variant, which carries the original message, for a light client, and the
\* plain variant with the same fields and no message otherwise.
C19_VariantFollowsFlag ==
    \A p \in Procs :
        /\ (pc[p] # "idle" /\ Kind(p) = "SecretRequest") =>
              Handed(p) =
                  <<IF cur[p].lc
                    THEN [type |-> "ReceiveSecretRequestLight",
                          payment_identifier |-> cur[p].msg.payment_identifier,
                          amount |-> cur[p].msg.amount,
                          expiration |-> cur[p].msg.expiration,
                          secrethash |-> cur[p].msg.secrethash,
                          sender |-> cur[p].msg.sender,
                          secret_request_message |-> cur[p].msg]
                    ELSE [type |-> "ReceiveSecretRequest",
                          payment_identifier |-> cur[p].msg.payment_identifier,
                          amount |-> cur[p].msg.amount,
                          expiration |-> cur[p].msg.expiration,
                          secrethash |-> cur[p].msg.secrethash,
                          sender |-> cur[p].msg.sender]>>
        /\ (pc[p] # "idle" /\ Kind(p) = "RevealSecret") =>
              Handed(p) =
                  <<IF cur[p].lc
                    THEN [type |-> "ReceiveSecretRevealLight",
                          secret |-> cur[p].msg.secret,
                          sender |-> cur[p].msg.sender,
                          secret_reveal_message |-> cur[p].msg]
                    ELSE [type |-> "ReceiveSecretReveal",
                          secret |-> cur[p].msg.secret,
                          sender |-> cur[p].msg.sender]>>

C19_Witness ==
    \E p \in Procs :
        /\ pc[p] = "done"
        /\ Kind(p) = "SecretRequest"
        /\ cur[p].lc
        /\ Len(cur[p].subs) = 1
        /\ cur[p].subs[1].type = "ReceiveSecretRequestLight"
        /\ cur[p].subs[1].secret_request_message = cur[p].msg

\* the kinds whose handlers are not given the flag
FlagFreeKinds == {"Unlock", "LockExpired", "RefundTransfer", "LockedTransfer"}

\* what an Unlock, LockExpired, RefundTransfer or LockedTransfer dispatch that
\* has ended must have handed to the pipeline, started and logged, given its
\* message and what the collaborators answered
FlagFreeOutcome(p) ==
    LET c == cur[p]
        m == c.msg
        proof == [envelope |-> m.envelope, sender |-> m.sender]
    IN CASE Kind(p) = "Unlock" ->
              /\ c.flows = <<>> /\ c.logs = <<>>
              /\ Handed(p) =
                    IF m.envelope = "badenvelope" THEN <<>>
                    ELSE <<[type |-> "ReceiveUnlock",
                            message_identifier |-> m.message_identifier,
                            secret |-> m.secret, balance_proof |-> proof]>>
         [] Kind(p) = "LockExpired" ->
              /\ c.flows = <<>> /\ c.logs = <<>>
              /\ Handed(p) =
                    IF m.envelope = "badenvelope" THEN <<>>
                    ELSE <<[type |-> "ReceiveLockExpired", balance_proof |-> proof,
                            secrethash |-> m.secrethash,
                            message_identifier |-> m.message_identifier]>>
         [] Kind(p) = "LockedTransfer" ->
              /\ Handed(p) = <<>>
              /\ Len(c.registry) = 1
              /\ IF c.registry[1].registered
                 THEN c.flows = <<>> /\ c.logs = <<"warning">>
                 ELSE /\ c.logs = <<>>
                      /\ c.flows = <<[flow |-> IF m.target = OwnAddress
                                               THEN "target_mediated_transfer"
                                               ELSE "mediate_mediated_transfer",
                                      message |-> m]>>
         [] Kind(p) = "RefundTransfer" ->
              /\ c.flows = <<>> /\ c.logs = <<>>
              /\ IF c.resolved = <<>>
                 THEN Handed(p) = <<>>
                 ELSE /\ Len(Handed(p)) = 1
                      /\ Handed(p)[1].transfer.message_identifier = m.message_identifier
                      /\ Handed(p)[1].transfer.lock = m.lock
                      /\ Handed(p)[1].type =
                            IF RefundRole(p) = "initiator"
                            THEN "ReceiveTransferRefundCancelRoute"
                            ELSE "ReceiveTransferRefund"
                      /\ Handed(p)[1].routes =
                            IF RefundRole(p) = "initiator" /\ RefundOldSecret(p) = EMPTY_SECRET
                            THEN <<>> ELSE c.resolved[1]

\* C20: the flag has no influence on the handling of Unlock, LockExpired,
\* RefundTransfer and LockedTransfer: what such a dispatch submits, starts
\* and logs is fixed by its message and the collaborators' answers whatever
\* the flag is, and it never enters, reads or writes the ack store.
C20_FlagHasNoInfluence ==
    \A p \in Procs :
        (pc[p] # "idle" /\ Kind(p) \in FlagFreeKinds) =>
            /\ cur[p].stores = 0
            /\ cur[p].lookups = 0
            /\ cur[p].checks = 0
            /\ cur[p].writes = <<>>
            /\ Ended(p) => FlagFreeOutcome(p)

C20_Witness ==
    \E p \in Procs :
        /\ pc[p] = "done"
        /\ Kind(p) = "LockedTransfer"
        /\ cur[p].lc
        /\ ~cur[p].registry[1].registered
        /\ Len(cur[p].flows) = 1
        /\ cur[p].flows[1].flow = "target_mediated_transfer"

=============================================================================
